---- MODULE Spec2Model ----
(***************************************************************************)
(* Model of roxmltree_to_serde (src/src/lib.rs): conversion of a parsed    *)
(* XML node tree into a serde_json Value, with the json_types and          *)
(* regex_path features enabled.                                            *)
(*                                                                         *)
(* Strings are sequences of one-character strings, so that trimming,       *)
(* prefix tests, concatenation and number parsing are computed.            *)
(***************************************************************************)
EXTENDS Integers, Sequences, FiniteSets, TLC

VARIABLES conf, arg, ret, pc

vars == <<conf, arg, ret, pc>>

----------------------------------------------------------------------------
(* Bounds of the model *)

\* longest generated text handed to parse_text
MaxLen == 3
\* most overrides registered before a path is resolved
MaxOverrides == 3
\* most overrides registered before a document is converted
MaxDocOverrides == 1
\* most child nodes of the converted element
MaxChildren == 2

----------------------------------------------------------------------------
(* Strings *)

Digits == {"0", "1", "2", "3", "4", "5", "6", "7", "8", "9"}

DigitVal == [c \in Digits |->
    CASE c = "0" -> 0 [] c = "1" -> 1 [] c = "2" -> 2 [] c = "3" -> 3
      [] c = "4" -> 4 [] c = "5" -> 5 [] c = "6" -> 6 [] c = "7" -> 7
      [] c = "8" -> 8 [] c = "9" -> 9]

\* characters the generated texts are made of
TextChars == {"0", "7", "-", "+", ".", "x", " "}

\* str::starts_with
starts_with(s, p) == Len(s) >= Len(p) /\ SubSeq(s, 1, Len(p)) = p

\* str::contains / unanchored search
contains_at(s, p, i) == i + Len(p) - 1 <= Len(s) /\ SubSeq(s, i, i + Len(p) - 1) = p

IsSpace(c) == c = " "

RECURSIVE trim_start(_)
trim_start(s) ==
    IF s # <<>> /\ IsSpace(Head(s)) THEN trim_start(Tail(s)) ELSE s

RECURSIVE trim_end(_)
trim_end(s) ==
    IF s # <<>> /\ IsSpace(s[Len(s)]) THEN trim_end(SubSeq(s, 1, Len(s) - 1)) ELSE s

\* str::trim
trim(s) == trim_end(trim_start(s))

AllDigits(s) == \A i \in 1..Len(s) : s[i] \in Digits

\* the decimal digits of a number without leading zeros ("0" for zero)
RECURSIVE Canon(_)
Canon(s) == IF Len(s) > 1 /\ Head(s) = "0" THEN Canon(Tail(s)) ELSE s

\* comparison of two digit strings of the same length
RECURSIVE DigitsLeq(_, _)
DigitsLeq(s, t) ==
    IF s = <<>> THEN TRUE
    ELSE IF DigitVal[Head(s)] < DigitVal[Head(t)] THEN TRUE
    ELSE IF DigitVal[Head(s)] > DigitVal[Head(t)] THEN FALSE
    ELSE DigitsLeq(Tail(s), Tail(t))

\* u64::MAX = 18446744073709551615
U64Max == <<"1","8","4","4","6","7","4","4","0","7","3","7","0","9","5","5","1","6","1","5">>

FitsU64(digits) ==
    LET c == Canon(digits) IN
    \/ Len(c) < Len(U64Max)
    \/ Len(c) = Len(U64Max) /\ DigitsLeq(c, U64Max)

----------------------------------------------------------------------------
(* serde_json::Value, and Option<Value> *)

\* Every value carries the same fields: t is the variant, s the text of a
\* string, the digits of an integer, the literal of a float or bool, a the
\* elements of an array, o the entries of an object (key -> value).
JNull == [t |-> "null", s |-> <<>>, a |-> <<>>, o |-> <<>>]

JBool(b) == [t |-> "bool", s |-> IF b THEN <<"true">> ELSE <<"false">>, a |-> <<>>, o |-> <<>>]

\* Number::from(u64): the value is kept as its decimal digits
JInt(digits) == [t |-> "int", s |-> Canon(digits), a |-> <<>>, o |-> <<>>]

\* Number::from_f64: the value is kept as the literal that denotes it
JFloat(text) == [t |-> "float", s |-> text, a |-> <<>>, o |-> <<>>]

JString(text) == [t |-> "string", s |-> text, a |-> <<>>, o |-> <<>>]

JArray(elems) == [t |-> "array", s |-> <<>>, a |-> elems, o |-> <<>>]

JObject(map) == [t |-> "object", s |-> <<>>, a |-> <<>>, o |-> map]

\* Option::None
NoValue == [t |-> "none", s |-> <<>>, a |-> <<>>, o |-> <<>>]

\* serde_json::Map
EmptyMap == <<>>

contains_key(map, k) == k \in DOMAIN map

insert(map, k, v) == [x \in DOMAIN map \cup {k} |-> IF x = k THEN v ELSE map[x]]

remove(map, k) == [x \in DOMAIN map \ {k} |-> map[x]]

is_empty(map) == DOMAIN map = {}

----------------------------------------------------------------------------
(* JsonType, JsonArray, NullValue *)

AlwaysString == [k |-> "AlwaysString", true_values |-> {}]

Bool(tv) == [k |-> "Bool", true_values |-> tv]

Infer == [k |-> "Infer", true_values |-> {}]

\* JsonArray::Always(t) / JsonArray::Infer(t)
ArrAlways(t) == [always |-> TRUE, ty |-> t]

ArrInfer(t) == [always |-> FALSE, ty |-> t]

NullValue == {"Ignore", "Null", "EmptyObject"}

----------------------------------------------------------------------------
(* parse_text *)

\* <u64 as FromStr>::from_str: an optional '+', then one or more digits, and
\* the value must fit 64 bits
parse_u64(text) ==
    LET body == IF text # <<>> /\ Head(text) = "+" THEN Tail(text) ELSE text IN
    IF body # <<>> /\ AllDigits(body) /\ FitsU64(body)
    THEN [ok |-> TRUE, v |-> Canon(body)]
    ELSE [ok |-> FALSE, v |-> <<>>]

LowerOf(c) ==
    CASE c = "I" -> "i" [] c = "N" -> "n" [] c = "F" -> "f" [] c = "A" -> "a"
      [] c = "T" -> "t" [] c = "Y" -> "y" [] OTHER -> c

Lower(s) == [i \in 1..Len(s) |-> LowerOf(s[i])]

\* Digit* '.' Digit* with at least one digit, or Digit+
IsDecimal(s) ==
    \/ s # <<>> /\ AllDigits(s)
    \/ \E i \in 1..Len(s) :
          /\ s[i] = "."
          /\ AllDigits(SubSeq(s, 1, i - 1))
          /\ AllDigits(SubSeq(s, i + 1, Len(s)))
          /\ Len(s) > 1

\* <f64 as FromStr>::from_str on texts without an exponent part:
\* "err" (no float), "finite", or "nonfinite" (inf, infinity, nan)
parse_f64(text) ==
    LET body == IF text # <<>> /\ Head(text) \in {"+", "-"} THEN Tail(text) ELSE text IN
    IF Lower(body) \in {<<"i","n","f">>, <<"n","a","n">>,
                        <<"i","n","f","i","n","i","t","y">>}
    THEN "nonfinite"
    ELSE IF IsDecimal(body) THEN "finite" ELSE "err"

\* <bool as FromStr>::from_str
parse_bool(text) ==
    IF text = <<"t","r","u","e">> THEN [ok |-> TRUE, v |-> TRUE]
    ELSE IF text = <<"f","a","l","s","e">> THEN [ok |-> TRUE, v |-> FALSE]
    ELSE [ok |-> FALSE, v |-> FALSE]

\* parse_text with the length test of the leading-zero rule left out
parse_text_no_length_test(raw, leading_zero_as_string, json_type) ==
    LET text == trim(raw)
        u == parse_u64(text)
        f == parse_f64(text)
        b == parse_bool(text)
    IN
    IF json_type = AlwaysString THEN JString(text)
    ELSE IF json_type.k = "Bool" THEN JBool(text \in json_type.true_values)
    ELSE IF u.ok THEN
        IF leading_zero_as_string /\ starts_with(text, <<"0">>) /\ u.v # <<"0">>
        THEN JString(text)
        ELSE JInt(u.v)
    ELSE IF f # "err" /\ starts_with(text, <<"0">>) /\ ~starts_with(text, <<"0", ".">>)
        THEN JString(text)
    ELSE IF f = "finite" THEN JFloat(text)
    ELSE IF b.ok THEN JBool(b.v)
    ELSE JString(text)

parse_text(raw, leading_zero_as_string, json_type) ==
    LET text == trim(raw)
        u == parse_u64(text)
        f == parse_f64(text)
        b == parse_bool(text)
    IN
    IF json_type = AlwaysString THEN JString(text)
    ELSE IF json_type.k = "Bool" THEN JBool(text \in json_type.true_values)
    ELSE IF u.ok THEN
        IF /\ leading_zero_as_string
           /\ starts_with(text, <<"0">>)
           /\ (u.v # <<"0">> \/ Len(text) > 1)
        THEN JString(text)
        ELSE JInt(u.v)
    ELSE IF f # "err" /\ starts_with(text, <<"0">>) /\ ~starts_with(text, <<"0", ".">>)
        THEN JString(text)
    ELSE IF f = "finite" THEN JFloat(text)
    ELSE IF b.ok THEN JBool(b.v)
    ELSE JString(text)

----------------------------------------------------------------------------
(* Config *)

new_with_custom_values(lz, attr_prefix, text_node_prop_name, empty_handling) ==
    [leading_zero_as_string |-> lz,
     xml_attr_prefix |-> attr_prefix,
     xml_text_node_prop_name |-> text_node_prop_name,
     empty_element_handling |-> empty_handling,
     json_type_overrides |-> EmptyMap,
     json_regex_type_overrides |-> <<>>]

new_with_defaults ==
    new_with_custom_values(FALSE, <<"@">>, <<"#","t","e","x","t">>, "EmptyObject")

\* impl From<&str> for PathMatcher
PathMatcherFromStr(value) ==
    [kind |-> "Absolute",
     path |-> IF starts_with(value, <<"/">>) THEN value ELSE <<"/">> \o value,
     regex |-> <<>>]

\* impl From<Regex> for PathMatcher
PathMatcherFromRegex(value) == [kind |-> "Regex", path |-> <<>>, regex |-> value]

\* A compiled regex of the shape ^?literal$? : lit is the literal, bol and eol
\* say whether it is anchored at the start and at the end.
Regex(lit, bol, eol) == [lit |-> lit, bol |-> bol, eol |-> eol]

\* Regex::is_match: an unanchored search for the pattern in the path
is_match(regex, path) ==
    \E i \in 1..(Len(path) + 1) :
        /\ contains_at(path, regex.lit, i)
        /\ regex.bol => i = 1
        /\ regex.eol => i + Len(regex.lit) - 1 = Len(path)

add_json_type_override(self, matcher, json_type) ==
    IF matcher.kind = "Absolute"
    THEN [self EXCEPT !.json_type_overrides = insert(@, matcher.path, json_type)]
    ELSE [self EXCEPT !.json_regex_type_overrides =
                          Append(@, [regex |-> matcher.regex, json_array |-> json_type])]

----------------------------------------------------------------------------
(* Path override resolution *)

\* the pair (bool, &JsonType) the resolvers return
TypePair(json_array) == [array |-> json_array.always, ty |-> json_array.ty]

get_json_type_with_absolute_path(config, path) ==
    IF contains_key(config.json_type_overrides, path)
    THEN TypePair(config.json_type_overrides[path])
    ELSE TypePair(ArrInfer(Infer))

RECURSIVE regex_scan(_, _, _)
\* the for loop of get_json_type over json_regex_type_overrides from index i
regex_scan(config, path, i) ==
    IF i > Len(config.json_regex_type_overrides)
    THEN get_json_type_with_absolute_path(config, path)
    ELSE IF is_match(config.json_regex_type_overrides[i].regex, path)
         THEN TypePair(config.json_regex_type_overrides[i].json_array)
         ELSE regex_scan(config, path, i + 1)

\* get_json_type with the exact-path table consulted before the regex list
get_json_type_exact_first(config, path) ==
    IF contains_key(config.json_type_overrides, path)
    THEN TypePair(config.json_type_overrides[path])
    ELSE regex_scan(config, path, 1)

get_json_type(config, path) == regex_scan(config, path, 1)

----------------------------------------------------------------------------
(* roxmltree::Node *)

\* An element node: tag name, attributes and child nodes in document order.
Element(name, attrs, children) ==
    [kind |-> "element", name |-> name, attrs |-> attrs, children |-> children,
     text |-> <<>>]

\* A text node: it has no tag name, no attributes and no children.
TextNode(text) ==
    [kind |-> "text", name |-> <<>>, attrs |-> <<>>, children |-> <<>>, text |-> text]

Attribute(name, value) == [name |-> name, value |-> value]

\* Node::text: a text node's own text; for an element the text of its first
\* child when that child is a text node
node_text(el) ==
    IF el.kind = "text" THEN [some |-> TRUE, v |-> el.text]
    ELSE IF el.children # <<>> /\ el.children[1].kind = "text"
         THEN [some |-> TRUE, v |-> el.children[1].text]
         ELSE [some |-> FALSE, v |-> <<>>]

----------------------------------------------------------------------------
(* Tree conversion *)

\* path + "/@" + attr.name
attr_path(path, attr) == path \o <<"/", "@">> \o attr.name

\* xml_attr_prefix + attr.name
attr_key(config, attr) == config.xml_attr_prefix \o attr.name

\* the value of one attribute, typed by the override of its own path
attr_value(config, path, attr) ==
    parse_text(attr.value, config.leading_zero_as_string,
               get_json_type(config, attr_path(path, attr)).ty)

RECURSIVE collect_attrs(_, _, _, _, _)
\* the attribute entries inserted into data in document order, from index i
collect_attrs(el, config, path, i, data) ==
    IF i > Len(el.attrs) THEN data
    ELSE collect_attrs(el, config, path, i + 1,
            insert(data, attr_key(config, el.attrs[i]),
                   attr_value(config, path, el.attrs[i])))

\* convert_text names `path` for the attribute paths; it is read here as the
\* path of the element, the one convert_node computed for it.
convert_text(el, config, path, text, json_type_value) ==
    IF Len(el.attrs) > 0
    THEN JObject(insert(collect_attrs(el, config, path, 1, EmptyMap),
                        config.xml_text_node_prop_name,
                        parse_text(text, config.leading_zero_as_string, json_type_value)))
    ELSE parse_text(text, config.leading_zero_as_string, json_type_value)

\* one child value stored under its tag name: the body of the child loop
store_child(config, path, data, name, val) ==
    LET json_type_array == get_json_type(config, path \o <<"/">> \o name).array IN
    IF json_type_array \/ contains_key(data, name)
    THEN IF contains_key(data, name) /\ data[name].t = "array"
         THEN insert(data, name, JArray(Append(data[name].a, val)))
         ELSE IF contains_key(data, name)
              THEN insert(remove(data, name), name, JArray(<<data[name], val>>))
              ELSE insert(data, name, JArray(<<val>>))
    ELSE insert(data, name, val)

\* finish_no_text with the root's fall-back to null applied to every element
finish_no_text_null_for_ignore(config, data) ==
    IF ~is_empty(data) THEN JObject(data)
    ELSE CASE config.empty_element_handling = "Null" -> JNull
           [] config.empty_element_handling = "EmptyObject" -> JObject(data)
           [] config.empty_element_handling = "Ignore" -> JNull

\* the result of convert_no_text once data is complete
finish_no_text(config, data) ==
    IF ~is_empty(data) THEN JObject(data)
    ELSE CASE config.empty_element_handling = "Null" -> JNull
           [] config.empty_element_handling = "EmptyObject" -> JObject(data)
           [] config.empty_element_handling = "Ignore" -> NoValue

RECURSIVE convert_node(_, _, _)
RECURSIVE convert_children(_, _, _, _, _)

RECURSIVE convert_children_null_for_none(_, _, _, _, _)
\* the child loop with a child that yields nothing stored as null, the way
\* xml_to_map treats the root
convert_children_null_for_none(el, config, path, i, data) ==
    IF i > Len(el.children) THEN data
    ELSE LET child == el.children[i]
             val == convert_node(child, config, path)
         IN convert_children_null_for_none(el, config, path, i + 1,
                IF child.name = <<>> THEN data
                ELSE store_child(config, path, data, child.name,
                                 IF val = NoValue THEN JNull ELSE val))

\* the loop over el.children() from index i
convert_children(el, config, path, i, data) ==
    IF i > Len(el.children) THEN data
    ELSE LET child == el.children[i]
             val == convert_node(child, config, path)
         IN convert_children(el, config, path, i + 1,
                IF val = NoValue \/ child.name = <<>> THEN data
                ELSE store_child(config, path, data, child.name, val))

convert_no_text(el, config, path, json_type_value) ==
    finish_no_text(config,
        convert_children(el, config, path, 1,
            collect_attrs(el, config, path, 1, EmptyMap)))

\* convert_node with an element that has text and child elements converted
\* as one without text, so that its children are converted
convert_node_children_first(el, config, parent_path) ==
    LET path == parent_path \o <<"/">> \o el.name
        json_type_value == get_json_type(config, path).ty
        text == node_text(el)
    IN IF /\ text.some /\ trim(text.v) # <<>>
          /\ \A i \in 1..Len(el.children) : el.children[i].kind # "element"
       THEN convert_text(el, config, path, trim(text.v), json_type_value)
       ELSE convert_no_text(el, config, path, json_type_value)

convert_node(el, config, parent_path) ==
    LET path == parent_path \o <<"/">> \o el.name
        json_type_value == get_json_type(config, path).ty
        text == node_text(el)
    IN IF text.some /\ trim(text.v) # <<>>
       THEN convert_text(el, config, path, trim(text.v), json_type_value)
       ELSE convert_no_text(el, config, path, json_type_value)

\* xml_to_map without the unwrap_or: the root key is dropped with its value
xml_to_map_without_fallback(e, config) ==
    LET v == convert_node(e, config, <<>>) IN
    JObject(IF v = NoValue THEN EmptyMap ELSE insert(EmptyMap, e.name, v))

xml_to_map(e, config) ==
    LET v == convert_node(e, config, <<>>) IN
    JObject(insert(EmptyMap, e.name, IF v = NoValue THEN JNull ELSE v))

\* The parser is external: xml is either a document with its root element or
\* a text the parser rejects.
Document(root) == [ok |-> TRUE, root |-> root]

Malformed == [ok |-> FALSE, root |-> TextNode(<<>>)]

xml_str_to_json(xml, config) ==
    IF xml.ok THEN [ok |-> TRUE, value |-> xml_to_map(xml.root, config)]
    ELSE [ok |-> FALSE, value |-> NoValue]

----------------------------------------------------------------------------
(* Inputs *)

\* all strings over chars of length at most n
StringsUpTo(chars, n) == UNION {[1..k -> chars] : k \in 0..n}

\* texts with the literals the number and bool rules single out
SampleTexts ==
    { <<"0","0","0","0">>, <<"t","r","u","e">>, <<"f","a","l","s","e">>,
      <<"T","r","u","e">>, <<"i","n","f">>, <<"-","I","N","F">>, <<"n","a","n">>,
      <<"0","0",".","5">>, <<"0",".","5">>, <<"-","0",".","5">>,
      U64Max,
      <<"1","8","4","4","6","7","4","4","0","7","3","7","0","9","5","5","1","6","1","6">>,
      <<"0">> \o U64Max,
      <<"9","9","9","9","9","9","9","9","9","9","9","9","9","9","9","9","9","9","9","9">> }

Texts == StringsUpTo(TextChars, MaxLen) \cup SampleTexts

TextTypes == {Infer, AlwaysString, Bool({<<"7">>, <<"t","r","u","e">>})}

\* <<"/","a","/","b">> is the path /a/b
TypePathOverrides ==
    { [path |-> p, json_type |-> t] :
        p \in {<<"/","a","/","b">>, <<"a","/","b">>, <<"/","a","/","@","b">>},
        t \in {ArrAlways(Infer), ArrInfer(AlwaysString), ArrAlways(Bool({<<"1">>}))} }

TypeRegexOverrides ==
    { [regex |-> r, json_type |-> t] :
        r \in {Regex(<<"b">>, FALSE, TRUE), Regex(<<"/","a">>, TRUE, FALSE),
               Regex(<<"@">>, FALSE, FALSE)},
        t \in {ArrAlways(Infer), ArrInfer(AlwaysString), ArrInfer(Bool({<<"1">>}))} }

QueryPaths ==
    { <<"/","a">>, <<"/","a","/","b">>, <<"/","a","/","@","b">>, <<"/","b","/","c">> }

DocPathOverrides ==
    { [path |-> <<"/","a","/","b">>, json_type |-> ArrAlways(Infer)],
      [path |-> <<"/","a","/","@","b">>, json_type |-> ArrInfer(AlwaysString)] }

DocRegexOverrides ==
    { [regex |-> Regex(<<"b">>, FALSE, TRUE), json_type |-> ArrAlways(AlwaysString)] }

AttrLists ==
    { <<>>,
      <<Attribute(<<"b">>, <<"0","0","1">>)>>,
      <<Attribute(<<"c">>, <<"0","2">>), Attribute(<<"b">>, <<"0","0","1">>)>> }

\* the nodes an element's children are drawn from:
\* <b/>, <b>1</b>, <b b="001"/>, <c>1</c>, <b><c/></b>, " ", "1"
ChildNodes ==
    { Element(<<"b">>, <<>>, <<>>),
      Element(<<"b">>, <<>>, <<TextNode(<<"1">>)>>),
      Element(<<"b">>, <<Attribute(<<"b">>, <<"0","0","1">>)>>, <<>>),
      Element(<<"c">>, <<>>, <<TextNode(<<"1">>)>>),
      Element(<<"b">>, <<>>, <<Element(<<"c">>, <<>>, <<>>)>>),
      TextNode(<<" ">>),
      TextNode(<<"1">>) }

\* the parser merges adjacent text, so no two text nodes are neighbours
ChildLists ==
    { cs \in StringsUpTo(ChildNodes, MaxChildren) :
        \A i \in 1..(Len(cs) - 1) : ~(cs[i].kind = "text" /\ cs[i + 1].kind = "text") }

Roots == { Element(<<"a">>, as, cs) : as \in AttrLists, cs \in ChildLists }

Configs ==
    { new_with_custom_values(lz, prefix, name, empty) :
        lz \in BOOLEAN,
        prefix \in {<<"@">>, <<>>},
        name \in {<<"#","t","e","x","t">>, <<"b">>},
        empty \in NullValue }

----------------------------------------------------------------------------
(* Operations *)

NoArg == <<>>

overrides_count(config) ==
    Cardinality(DOMAIN config.json_type_overrides) + Len(config.json_regex_type_overrides)

\* Config::add_json_type_override with a &str path
AddPathOverride(choices, max) ==
    /\ pc = "ready"
    /\ overrides_count(conf) < max
    /\ \E c \in choices :
          conf' = add_json_type_override(conf, PathMatcherFromStr(c.path), c.json_type)
    /\ UNCHANGED <<arg, ret, pc>>

\* Config::add_json_type_override with a Regex
AddRegexOverride(choices, max) ==
    /\ pc = "ready"
    /\ overrides_count(conf) < max
    /\ \E c \in choices :
          conf' = add_json_type_override(conf, PathMatcherFromRegex(c.regex), c.json_type)
    /\ UNCHANGED <<arg, ret, pc>>

ParseText ==
    /\ pc = "ready"
    /\ \E text \in Texts, lz \in BOOLEAN, json_type \in TextTypes :
          /\ arg' = [text |-> text, leading_zero_as_string |-> lz, json_type |-> json_type]
          /\ ret' = parse_text(text, lz, json_type)
    /\ pc' = "done"
    /\ UNCHANGED conf

GetJsonType ==
    /\ pc = "ready"
    /\ \E path \in QueryPaths :
          /\ arg' = path
          /\ ret' = get_json_type(conf, path)
    /\ pc' = "done"
    /\ UNCHANGED conf

XmlStrToJson ==
    /\ pc = "ready"
    /\ \E xml \in {Document(r) : r \in Roots} \cup {Malformed} :
          /\ arg' = xml
          /\ ret' = xml_str_to_json(xml, conf)
    /\ pc' = "done"
    /\ UNCHANGED conf

----------------------------------------------------------------------------
(* Specifications *)

\* parse_text on its own
InitText == conf = new_with_defaults /\ arg = NoArg /\ ret = NoValue /\ pc = "ready"

NextText == ParseText

SpecText == InitText /\ [][NextText]_vars

\* building a Config and resolving a path against it
InitType == conf = new_with_defaults /\ arg = NoArg /\ ret = NoValue /\ pc = "ready"

NextType ==
    \/ AddPathOverride(TypePathOverrides, MaxOverrides)
    \/ AddRegexOverride(TypeRegexOverrides, MaxOverrides)
    \/ GetJsonType

SpecType == InitType /\ [][NextType]_vars

\* building a Config and converting a document with it
Init == conf \in Configs /\ arg = NoArg /\ ret = NoValue /\ pc = "ready"

Next ==
    \/ AddPathOverride(DocPathOverrides, MaxDocOverrides)
    \/ AddRegexOverride(DocRegexOverrides, MaxDocOverrides)
    \/ XmlStrToJson

Spec == Init /\ [][Next]_vars

----------------------------------------------------------------------------
(* Scalar inference: C5, C9 *)

Called == pc = "done"

\* C5: under Infer, a text of decimal digits that fits u64 yields the integer 0
\* for "0"; with a leading '0' and more than one character it yields the text
\* as a string when leading_zero_as_string is set and the parsed integer when
\* it is not; without a leading '0' it yields the integer.
C5_LeadingZero ==
    (/\ Called
     /\ arg.json_type = Infer
     /\ arg.text # <<>>
     /\ AllDigits(arg.text)
     /\ FitsU64(arg.text))
    => /\ arg.text = <<"0">> => ret = JInt(<<"0">>)
       /\ (Head(arg.text) = "0" /\ Len(arg.text) > 1) =>
             ret = IF arg.leading_zero_as_string
                   THEN JString(arg.text)
                   ELSE JInt(Canon(arg.text))
       /\ Head(arg.text) # "0" => ret = JInt(arg.text)

\* "0000" with leading_zero_as_string set has been parsed to the string "0000"
C5_Witness ==
    /\ Called
    /\ arg.json_type = Infer
    /\ arg.text = <<"0","0","0","0">>
    /\ arg.leading_zero_as_string
    /\ ret = JString(<<"0","0","0","0">>)

\* an optional sign followed by one or more digits
IsIntegral(text) ==
    LET body == IF text # <<>> /\ Head(text) \in {"+", "-"} THEN Tail(text) ELSE text IN
    body # <<>> /\ AllDigits(body)

\* C9: under Infer, a text that denotes an integer (signed texts and digit
\* strings beyond u64 included) never yields a floating-point number.
C9_IntegralNeverFloat ==
    (Called /\ arg.json_type = Infer /\ IsIntegral(trim(arg.text))) => ret.t # "float"

----------------------------------------------------------------------------
(* Override resolution: C7 *)

MatchingRegexes(config, path) ==
    { i \in 1..Len(config.json_regex_type_overrides) :
        is_match(config.json_regex_type_overrides[i].regex, path) }

\* C7: resolution returns the policy and rule of the first registered regex
\* override that matches the path, even when an exact-path override for the
\* path exists; without a matching regex it returns the exact-path override if
\* there is one, and otherwise the default (Infer, Infer).
C7_Resolution ==
    Called =>
      LET m == MatchingRegexes(conf, arg) IN
      IF m # {}
      THEN \E i \in m :
              /\ \A j \in m : i <= j
              /\ ret = TypePair(conf.json_regex_type_overrides[i].json_array)
      ELSE IF arg \in DOMAIN conf.json_type_overrides
           THEN ret = TypePair(conf.json_type_overrides[arg])
           ELSE ret = [array |-> FALSE, ty |-> Infer]

\* two regexes and an exact-path override all apply to the path, they name
\* three different results, and the first regex has been returned
C7_Witness ==
    /\ Called
    /\ Cardinality(MatchingRegexes(conf, arg)) >= 2
    /\ arg \in DOMAIN conf.json_type_overrides
    /\ ret = TypePair(conf.json_regex_type_overrides[1].json_array)
    /\ ret # TypePair(conf.json_regex_type_overrides[2].json_array)
    /\ ret # TypePair(conf.json_type_overrides[arg])
    /\ is_match(conf.json_regex_type_overrides[1].regex, arg)

----------------------------------------------------------------------------
(* Tree conversion: C1, C2, C3, C4, C6, C8, C10 *)

Converted == pc = "done" /\ arg.ok

RECURSIVE Elements(_, _)
\* the element nodes of the tree below el, each with the path of its parent
Elements(el, parent) ==
    IF el.kind # "element" THEN {}
    ELSE {[el |-> el, parent |-> parent]}
         \cup UNION { Elements(el.children[i], parent \o <<"/">> \o el.name) :
                        i \in 1..Len(el.children) }

PathOf(e) == e.parent \o <<"/">> \o e.el.name

HasText(el) == node_text(el).some /\ trim(node_text(el).v) # <<>>

ValueOf(e) == convert_node(e.el, conf, e.parent)

\* the children of e that yield a value and have a tag name
Yielding(e) ==
    { i \in 1..Len(e.el.children) :
        /\ e.el.children[i].name # <<>>
        /\ convert_node(e.el.children[i], conf, PathOf(e)) # NoValue }

AttrKeys(e) == { attr_key(conf, e.el.attrs[i]) : i \in 1..Len(e.el.attrs) }

ChildKeys(e) == { e.el.children[i].name : i \in Yielding(e) }

RECURSIVE ValuesOfTag(_, _, _)
\* the values of the children of e with tag t that yield one, in document
\* order, from child i on
ValuesOfTag(e, t, i) ==
    IF i > Len(e.el.children) THEN <<>>
    ELSE (IF i \in Yielding(e) /\ e.el.children[i].name = t
          THEN <<convert_node(e.el.children[i], conf, PathOf(e))>>
          ELSE <<>>) \o ValuesOfTag(e, t, i + 1)

ArrayPolicy(e, t) == get_json_type(conf, PathOf(e) \o <<"/">> \o t).array

\* C3: an element without non-blank text whose object ends up empty converts
\* by empty_element_handling: Ignore yields no value, so that it adds no key
\* to its parent, Null yields null, EmptyObject yields the empty object; a
\* non-empty object is returned whatever the policy, and its keys are those of
\* the attributes and of the children that yield a value.
C3_EmptyElement ==
    Converted =>
      \A e \in Elements(arg.root, <<>>) :
        ~HasText(e.el) =>
          LET keys == AttrKeys(e) \cup ChildKeys(e)
              v == ValueOf(e)
          IN IF keys = {}
             THEN v = CASE conf.empty_element_handling = "Ignore" -> NoValue
                        [] conf.empty_element_handling = "Null" -> JNull
                        [] conf.empty_element_handling = "EmptyObject" -> JObject(EmptyMap)
             ELSE v.t = "object" /\ DOMAIN v.o = keys

\* under Ignore an element with an attribute has a child <b><c/></b> that
\* converts to nothing, and no key b appears in its object
C3_Witness ==
    /\ Converted
    /\ conf.empty_element_handling = "Ignore"
    /\ \E e \in Elements(arg.root, <<>>) :
          /\ ~HasText(e.el)
          /\ \E i \in 1..Len(e.el.children) :
                /\ e.el.children[i].kind = "element"
                /\ e.el.children[i].children # <<>>
                /\ convert_node(e.el.children[i], conf, PathOf(e)) = NoValue
                /\ e.el.children[i].name \notin DOMAIN ValueOf(e).o
          /\ ValueOf(e).t = "object"
          /\ ChildKeys(e) = {}
          /\ DOMAIN ValueOf(e).o = AttrKeys(e)
          /\ AttrKeys(e) # {}

\* C4: for a parsed document the driver returns an object whose only key is
\* the root's tag name; its value is the root's converted value, with null in
\* its place only when the root converts to nothing, and that happens only
\* under Ignore for a root whose object is empty.
C4_RootKeyed ==
    Converted =>
      LET root == [el |-> arg.root, parent |-> <<>>]
          v == ValueOf(root)
      IN /\ ret.ok
         /\ ret.value.t = "object"
         /\ DOMAIN ret.value.o = {arg.root.name}
         /\ ret.value.o[arg.root.name] = IF v = NoValue THEN JNull ELSE v
         /\ v = NoValue =>
              /\ conf.empty_element_handling = "Ignore"
              /\ ~HasText(arg.root)
              /\ AttrKeys(root) \cup ChildKeys(root) = {}

\* under Ignore the root <a><b/></a> converts to nothing and the driver
\* returns {"a": null}
C4_Witness ==
    /\ Converted
    /\ conf.empty_element_handling = "Ignore"
    /\ arg.root.children # <<>>
    /\ convert_node(arg.root, conf, <<>>) = NoValue
    /\ ret.value = JObject(insert(EmptyMap, <<"a">>, JNull))

\* C1: under array policy Infer for the child path, for every element without
\* non-blank text and every child tag t: one child with tag t that yields a
\* value is held under key t as it is, and k >= 2 of them are held as the array
\* of exactly those k values in document order.
C1_InferArray ==
    Converted =>
      \A e \in Elements(arg.root, <<>>) :
        ~HasText(e.el) =>
          \A t \in ChildKeys(e) :
            ~ArrayPolicy(e, t) =>
              LET vals == ValuesOfTag(e, t, 1) IN
              /\ ValueOf(e).t = "object"
              /\ t \in DOMAIN ValueOf(e).o
              /\ ValueOf(e).o[t] = IF Len(vals) = 1 THEN vals[1] ELSE JArray(vals)

\* C2: under array policy Always for the child path, key t holds an array of
\* exactly the k >= 1 values of the children with tag t, in document order.
C2_AlwaysArray ==
    Converted =>
      \A e \in Elements(arg.root, <<>>) :
        ~HasText(e.el) =>
          \A t \in ChildKeys(e) :
            ArrayPolicy(e, t) =>
              /\ ValueOf(e).t = "object"
              /\ t \in DOMAIN ValueOf(e).o
              /\ ValueOf(e).o[t] = JArray(ValuesOfTag(e, t, 1))

\* the inferred value of the text of an element that has text
TextValueOf(e) ==
    parse_text(node_text(e.el).v, conf.leading_zero_as_string,
               get_json_type(conf, PathOf(e)).ty)

\* C6: an element with non-blank text and no attributes converts to the bare
\* inferred scalar, never an object; with n >= 1 attributes it converts to an
\* object of n entries keyed xml_attr_prefix + name, one per attribute, plus
\* one entry keyed xml_text_node_prop_name that holds the inferred text value.
C6_TextElement ==
    Converted =>
      \A e \in Elements(arg.root, <<>>) :
        HasText(e.el) =>
          IF Len(e.el.attrs) = 0
          THEN ValueOf(e) = TextValueOf(e) /\ ValueOf(e).t \notin {"object", "array"}
          ELSE /\ ValueOf(e).t = "object"
               /\ AttrKeys(e) \subseteq DOMAIN ValueOf(e).o
               /\ conf.xml_text_node_prop_name \in DOMAIN ValueOf(e).o
               /\ ValueOf(e).o[conf.xml_text_node_prop_name] = TextValueOf(e)
               /\ Cardinality(DOMAIN ValueOf(e).o) = Len(e.el.attrs) + 1

\* C8: an attribute whose path resolves to AlwaysString has, under its key in
\* the element's object, its trimmed text as a string, whatever the text and
\* leading_zero_as_string, for an element with text and for one without.
C8_AttrAlwaysString ==
    Converted =>
      \A e \in Elements(arg.root, <<>>) :
        \A i \in 1..Len(e.el.attrs) :
          get_json_type(conf, attr_path(PathOf(e), e.el.attrs[i])).ty = AlwaysString =>
            /\ ValueOf(e).t = "object"
            /\ attr_key(conf, e.el.attrs[i]) \in DOMAIN ValueOf(e).o
            /\ ValueOf(e).o[attr_key(conf, e.el.attrs[i])]
                 = JString(trim(e.el.attrs[i].value))

\* C10: in an element without non-blank text the entry of every attribute is
\* the inferred scalar of the attribute, never an array nor part of one, for
\* every Config.
C10_AttrScalar ==
    Converted =>
      \A e \in Elements(arg.root, <<>>) :
        ~HasText(e.el) =>
          \A i \in 1..Len(e.el.attrs) :
            /\ ValueOf(e).t = "object"
            /\ attr_key(conf, e.el.attrs[i]) \in DOMAIN ValueOf(e).o
            /\ ValueOf(e).o[attr_key(conf, e.el.attrs[i])]
                 = attr_value(conf, PathOf(e), e.el.attrs[i])

----------------------------------------------------------------------------
(* Null under Ignore: C11 *)

RECURSIVE NullBelow(_)
\* null is an entry of the object v or an element of the array v, at any depth
NullBelow(v) ==
    \/ \E k \in DOMAIN v.o : v.o[k] = JNull \/ NullBelow(v.o[k])
    \/ \E i \in 1..Len(v.a) : v.a[i] = JNull \/ NullBelow(v.a[i])

\* C11: under Ignore null appears in the output only as the value of the root
\* key: no entry of a nested object and no element of an array is null.
C11_NullOnlyAtRoot ==
    (Converted /\ conf.empty_element_handling = "Ignore") =>
      \A k \in DOMAIN ret.value.o : ~NullBelow(ret.value.o[k])

\* under Ignore a child element below the root has converted to nothing next
\* to a sibling that yields a value, and the root's value is an object
C11_Witness ==
    /\ Converted
    /\ conf.empty_element_handling = "Ignore"
    /\ ret.value.o[arg.root.name].t = "object"
    /\ \E i, j \in 1..Len(arg.root.children) :
          /\ arg.root.children[i].kind = "element"
          /\ convert_node(arg.root.children[i], conf, <<"/">> \o arg.root.name) = NoValue
          /\ convert_node(arg.root.children[j], conf, <<"/">> \o arg.root.name) # NoValue
          /\ arg.root.children[j].name \in DOMAIN ret.value.o[arg.root.name].o

----------------------------------------------------------------------------
(* Children of an element with text: C12 *)

\* cs with the node c put after its first p nodes
InsertAt(cs, p, c) == SubSeq(cs, 1, p) \o <<c>> \o SubSeq(cs, p + 1, Len(cs))

RECURSIVE Merge(_)
\* the parser's view of a child list: neighbouring text nodes are one node
Merge(cs) ==
    IF Len(cs) < 2 THEN cs
    ELSE IF cs[1].kind = "text" /\ cs[2].kind = "text"
         THEN Merge(<<TextNode(cs[1].text \o cs[2].text)>> \o SubSeq(cs, 3, Len(cs)))
         ELSE <<cs[1]>> \o Merge(Tail(cs))

\* cs without its i-th node
RemoveAt(cs, i) == Merge(SubSeq(cs, 1, i - 1) \o SubSeq(cs, i + 1, Len(cs)))

ChildElements == { c \in ChildNodes : c.kind = "element" }

\* the value of the element e with cs as its children
ValueWith(e, cs) == convert_node(Element(e.el.name, e.el.attrs, cs), conf, e.parent)

====
